---- MODULE Spec2Model ----
(***************************************************************************)
(* Squeezer: the batch worker CompressionThread (gui/main_window.py), the  *)
(* file router CompressionManager (processors/compression_manager.py) and  *)
(* the HEIC fallback chain ImageProcessor._process_heic                    *)
(* (processors/image_processor.py) and the video encoder VideoProcessor    *)
(* (processors/video_processor.py).                                        *)
(*                                                                         *)
(* Seven specifications share the module:                                  *)
(*   Spec      one batch run by CompressionThread.run, with the UI thread  *)
(*             calling stop() at any moment; FairSpec adds the fairness of *)
(*             the worker thread.                                          *)
(*   HeicSpec  calls of ImageProcessor._process_heic, one mechanism at a   *)
(*             time.                                                       *)
(*   ManagerSpec  one call of CompressionManager.compress_file, from the   *)
(*             existence check to the processor it routes the file to.     *)
(*   VideoSpec the VideoProcessor objects of one process and the           *)
(*             compress_video calls made on them.                          *)
(*   ResizeSpec  the pixel dimensions of an image along each path that     *)
(*             re-encodes it.                                              *)
(*   NamingSpec  the task list built by add_files and add_folder and the   *)
(*             output paths a batch writes.                                *)
(*   UiSpec    MainWindow's buttons and slots with the signals of the      *)
(*             CompressionThread it started.                               *)
(***************************************************************************)
EXTENDS Integers, Sequences, FiniteSets, TLC

(***************************************************************************)
(* Bounds of the model.                                                    *)
(***************************************************************************)
MaxFiles == 3

\* VideoProcessor objects constructed in one process (one per CompressionThread
\* and per TestCompressionWorker) and compress_video calls made in it
MaxProcessors == 2
MaxCalls == 2

\* supported files on the disk the user selects from
MaxDisk == 2

\* batches started from one window, and files of a batch
MaxBatches == 2
MaxTasks == 2

\* sizes os.path.getsize can report for a source and for a compressed file
OrigSizes == {3}
CompSizes == {2}

\* kinds of file the file-selection code lets into files_to_compress
FileKinds == {"image", "video"}

VARIABLES
    \* ---- CompressionThread ----
    files,                 \* self.files: sequence of file kinds, task i is files[i]
    stopped,               \* self.stopped
    pc,                    \* position of run()
    idx,                   \* the for loop's position in self.files (1-based)
    processed_files,       \* local of run()
    total_original_size,   \* local of run()
    total_compressed_size, \* local of run()
    failed_files,          \* local of run(): sequence of <<task, error>>
    file_stats,            \* local of run(): sequence of file_stat records
    original_size,         \* local of run(): size of the current source
    signals,               \* every signal emitted so far, in order
    dispatched,            \* tasks handed to manager.compress_file, in order
    inflight,              \* tasks whose compress_file call has not returned
    taken,                 \* tasks that passed the self.stopped check, in order
    stopAt,                \* Len(dispatched) when stop() was called, -1 before
    stopTaken,             \* Len(taken) when stop() was called, -1 before
    \* ---- environment of VideoProcessor._check_ffmpeg ----
    bundledCallable,       \* [self.ffmpeg_path, "-version"] runs
    systemCallable,        \* ["ffmpeg", "-version"] runs
    \* ---- ImageProcessor._process_heic ----
    hpc,                   \* position of _process_heic
    quality,               \* its quality argument
    attempts,              \* mechanisms attempted so far: <<mechanism, outcome>>
    hresult,               \* "none" while running, "returned" or "raised"
    herror,                \* what a raised call carries
    darwin,                \* sys.platform == "darwin"
    \* ---- CompressionManager.compress_file, ImageProcessor.compress_image ----
    mpc,                   \* position of compress_file
    ext,                   \* lower-cased extension of file_path
    quality_level,         \* the quality_level argument
    source,                \* content of the file at file_path, "absent" if none
    readable,              \* Image.open(image_path) succeeds
    same_dir,              \* output_dir is the directory of file_path
    outdir_exists,         \* os.path.exists(output_dir)
    outdir_existed,        \* outdir_exists when compress_file was called
    output,                \* content of the file at the output path
    invoked,               \* the processor compress_file handed the file to
    mresult,               \* "none" while running, "returned" or "raised"
    merror,                \* the exception of a raised call
    \* ---- VideoProcessor, over the life of the process ----
    bundledTool,           \* bin/ffmpeg beside the application: "absent", "broken", "runs"
    systemTool,            \* ffmpeg on the search path: "absent", "broken", "runs"
    ffmpeg_path,           \* self.ffmpeg_path of the latest VideoProcessor
    ffprobe_path,          \* self.ffprobe_path of the latest VideoProcessor
    instances,             \* VideoProcessor objects constructed so far
    discoveries,           \* runs of _get_ffmpeg_path/_get_ffprobe_path so far
    vpc,                   \* position of compress_video
    vquality,              \* its quality_level argument
    calls,                 \* subprocess.run invocations of the current call
    ncalls,                \* compress_video calls started so far
    vresult,               \* "none" while running, "returned" or "raised"
    verror,                \* the exception of a raised call
    \* ---- the pixel dimensions along one re-encoding path ----
    rpc,                   \* "open", then "done" (output written) or "failed"
    route,                 \* the code path that re-encodes the image
    width,                 \* img.size of the input
    height,
    out_width,             \* dimensions of the image written, 0 if none
    out_height,
    \* ---- MainWindow.files_to_compress and the output paths of a batch ----
    npc,                   \* "select" while files are chosen, "run", "done"
    disk,                  \* the supported files on the disk
    files_to_compress,     \* MainWindow.files_to_compress: (file_path, rel_path)
    nrun,                  \* position of the batch in files_to_compress
    written,               \* output paths written by the tasks that succeeded
    \* ---- MainWindow and the CompressionThread it started ----
    upc,                   \* UI thread: "idle" in the event loop, "waiting" in wait(), "aborted"
    wpc,                   \* position of the worker's run(), "none" before the first batch
    wleft,                 \* files the worker's loop has not taken yet
    wprocessed,            \* processed_files of the worker
    wfailed,               \* failed_files of the worker is not empty
    wstop,                 \* self.stopped of the worker
    queue,                 \* signals emitted by workers, not yet delivered to the slots
    start_btn,             \* start_btn.isEnabled()
    stop_btn,              \* stop_btn.isEnabled()
    batches,               \* CompressionThread objects created so far
    finalized,             \* runs of on_compression_finished, per batch
    slot_error,            \* an exception has left a slot
    overlapped             \* compression_thread was replaced while its thread ran

batchVars == <<files, stopped, pc, idx, processed_files, total_original_size,
               total_compressed_size, failed_files, file_stats, original_size,
               signals, dispatched, inflight, taken, stopAt, stopTaken,
               bundledCallable, systemCallable>>
heicVars == <<hpc, quality, attempts, hresult, herror, darwin>>
managerVars == <<mpc, ext, quality_level, source, readable, same_dir,
                 outdir_exists, outdir_existed, output, invoked, mresult,
                 merror>>
videoVars == <<bundledTool, systemTool, ffmpeg_path, ffprobe_path, instances,
               discoveries, vpc, vquality, calls, ncalls, vresult, verror>>
resizeVars == <<rpc, route, width, height, out_width, out_height>>
namingVars == <<npc, disk, files_to_compress, nrun, written>>
uiVars == <<upc, wpc, wleft, wprocessed, wfailed, wstop, queue, start_btn, stop_btn, batches, finalized, slot_error, overlapped>>
vars == <<batchVars, heicVars, managerVars, videoVars, resizeVars, namingVars, uiVars>>

(***************************************************************************)
(* Helpers                                                                 *)
(***************************************************************************)
RECURSIVE SeqsUpTo(_, _)
SeqsUpTo(S, n) ==
    IF n = 0 THEN {<<>>}
    ELSE LET shorter == SeqsUpTo(S, n - 1)
         IN  shorter \cup {Append(s, x) : s \in {t \in shorter : Len(t) = n - 1}, x \in S}

total_files == Len(files)

\* int(processed_files / total_files * 100)
Percent(p) == (p * 100) \div total_files

\* mutant of EstimateRemainingTime: the guard processed_files == 0 is missing
EstimateRemainingTimeUnguarded(p) == "estimate"

\* CompressionThread._estimate_remaining_time: None before the first file
\* completes, otherwise a number computed from the clock
EstimateRemainingTime(p) == IF p = 0 THEN "None" ELSE "estimate"

\* one emitted signal
Signal(sig, file, p, percent, eta, orig, comp, items) ==
    [sig |-> sig, file |-> file, processed |-> p, percent |-> percent,
     eta |-> eta, orig |-> orig, comp |-> comp, items |-> items]

ProgressUpdate(file, p, percent, eta) ==
    Signal("progress_update", file, p, percent, eta, 0, 0, <<>>)
FileProcessed(file, orig, comp) ==
    Signal("file_processed", file, 0, 0, "None", orig, comp, <<>>)
\* the per-file message of line 137
FileError(file, err) ==
    Signal("error_occurred", file, 0, 0, "None", 0, 0, <<<<file, err>>>>)
\* mutant of FailureReport: the message is overwritten, not extended, per file
FailureReportLastOnly(failed) ==
    Signal("error_occurred", 0, 0, 0, "None", 0, 0, <<failed[Len(failed)]>>)

\* the consolidated message of lines 162-165
FailureReport(failed) ==
    Signal("error_occurred", 0, 0, 0, "None", 0, 0, failed)
CompressionFinished ==
    Signal("compression_finished", 0, 0, 0, "None", 0, 0, <<>>)


(***************************************************************************)
(* CompressionManager.compress_file as CompressionThread.run sees it       *)
(***************************************************************************)
\* mutant of CheckFfmpeg: the result of the version check is ignored
CheckFfmpegAssumed == TRUE

\* VideoProcessor._check_ffmpeg: the bound encoder runs, or else the
\* system-path one does
CheckFfmpeg == bundledCallable \/ systemCallable

\* what manager.compress_file(file_path, output_subdir, quality_level) can
\* do for a file of the given kind: return the output path ("ok") or raise
CompressOutcomes(kind) ==
    IF kind = "video"
    THEN IF CheckFfmpeg THEN {"ok", "video_error"} ELSE {"ffmpeg_unavailable"}
    ELSE {"ok", "image_error"}

(***************************************************************************)
(* CompressionThread.run                                                   *)
(***************************************************************************)
\* mutant of NextFile: the loop does not advance
NextFileSame(i) == i

\* the for statement moves to the next element of self.files
NextFile(i) == i + 1

\* mutant of LoopContinues: the stop flag is not looked at
LoopContinuesIgnoringStop == idx <= total_files

\* for file_info in self.files: if self.stopped: break
LoopContinues == idx <= total_files /\ ~stopped

\* mutant of AfterTask: the count is not incremented
AfterTaskForgotten(p) == p

\* finally: processed_files += 1
AfterTask(p) == p + 1

\* mutant of RecordFailure: the failure is not kept
RecordFailureLost(failed, file, err) == failed

\* failed_files.append((rel_path, str(e)))
RecordFailure(failed, file, err) == Append(failed, <<file, err>>)

\* file_stats.append(file_stat)
RecordStat(stats, file, orig, comp) ==
    Append(stats, [file |-> file, original_size |-> orig, compressed_size |-> comp])

\* the progress_update of lines 87-97
PreProgress ==
    ProgressUpdate(idx, processed_files, Percent(processed_files),
                   EstimateRemainingTime(processed_files))

\* mutant of PostProgress: the event is built before the count is incremented
PostProgressStale ==
    ProgressUpdate(idx, processed_files, Percent(processed_files),
                   EstimateRemainingTime(processed_files))

\* the progress_update of the finally block, lines 142-158
PostProgress ==
    ProgressUpdate(idx, AfterTask(processed_files),
                   Percent(AfterTask(processed_files)),
                   EstimateRemainingTime(AfterTask(processed_files)))

\* mutant of TerminalProgress: the percentage is computed from the count
TerminalProgressComputed ==
    ProgressUpdate(0, processed_files, Percent(processed_files), "zero")

\* the progress_update of lines 168-176
TerminalProgress == ProgressUpdate(0, processed_files, 100, "zero")

\* except Exception as e: ... finally: ..., for the current file; pre is what
\* the try block emitted before the exception
FailCurrent(err, pre) ==
    /\ failed_files' = RecordFailure(failed_files, idx, err)
    /\ signals' = signals \o pre \o <<FileError(idx, err), PostProgress>>
    /\ processed_files' = AfterTask(processed_files)
    /\ idx' = NextFile(idx)
    /\ pc' = "loop"
    /\ UNCHANGED <<file_stats, total_compressed_size>>

\* lines 53-73: the initial progress_update
RunStart ==
    /\ pc = "start"
    /\ signals' = Append(signals, ProgressUpdate(0, processed_files, 0, "None"))
    /\ pc' = "loop"
    /\ UNCHANGED <<files, stopped, idx, processed_files, total_original_size,
                   total_compressed_size, failed_files, file_stats,
                   original_size, dispatched, inflight, taken, stopAt,
                   stopTaken, bundledCallable, systemCallable>>

\* lines 75-77: the loop takes up the next file
LoopEnter ==
    /\ pc = "loop"
    /\ LoopContinues
    /\ taken' = Append(taken, idx)
    /\ pc' = "pre"
    /\ UNCHANGED <<files, stopped, idx, processed_files, total_original_size,
                   total_compressed_size, failed_files, file_stats,
                   original_size, signals, dispatched, inflight,
                   stopAt, stopTaken, bundledCallable, systemCallable>>

\* lines 75-77: self.files is exhausted, or self.stopped breaks the loop
LoopExit ==
    /\ pc = "loop"
    /\ ~LoopContinues
    /\ pc' = "report"
    /\ UNCHANGED <<files, stopped, idx, processed_files, total_original_size,
                   total_compressed_size, failed_files, file_stats,
                   original_size, signals, dispatched, inflight, taken,
                   stopAt, stopTaken, bundledCallable, systemCallable>>

\* lines 85-111: pre-task progress, size of the source, output directory,
\* and the call of manager.compress_file
PreTaskOk ==
    /\ pc = "pre"
    /\ \E size \in OrigSizes :
          /\ original_size' = size
          /\ total_original_size' = total_original_size + size
    /\ signals' = Append(signals, PreProgress)
    /\ dispatched' = Append(dispatched, idx)
    /\ inflight' = inflight \cup {idx}
    /\ pc' = "call"
    /\ UNCHANGED <<files, stopped, idx, processed_files, total_compressed_size,
                   failed_files, file_stats, taken, stopAt, stopTaken,
                   bundledCallable, systemCallable>>

\* line 100: os.path.getsize(file_path) raises (the source is gone)
PreTaskGetsizeFails ==
    /\ pc = "pre"
    /\ FailCurrent("getsize_source", <<PreProgress>>)
    /\ UNCHANGED <<files, stopped, total_original_size, original_size,
                   dispatched, inflight, taken, stopAt, stopTaken,
                   bundledCallable, systemCallable>>

\* line 106: os.makedirs raises, after line 101 counted the source's size
PreTaskMakedirsFails ==
    /\ pc = "pre"
    /\ \E size \in OrigSizes :
          /\ original_size' = size
          /\ total_original_size' = total_original_size + size
    /\ FailCurrent("makedirs", <<PreProgress>>)
    /\ UNCHANGED <<files, stopped, dispatched, inflight, taken, stopAt,
                   stopTaken, bundledCallable, systemCallable>>

\* lines 109-134 and 141-158: compress_file returns, the result is measured
\* and announced
CompressReturns ==
    /\ pc = "call"
    /\ "ok" \in CompressOutcomes(files[idx])
    /\ \E comp \in CompSizes :
          /\ total_compressed_size' = total_compressed_size + comp
          /\ file_stats' = RecordStat(file_stats, idx, original_size, comp)
          /\ signals' = signals \o <<FileProcessed(idx, original_size, comp),
                                     PostProgress>>
    /\ inflight' = inflight \ {idx}
    /\ processed_files' = AfterTask(processed_files)
    /\ idx' = NextFile(idx)
    /\ pc' = "loop"
    /\ UNCHANGED <<files, stopped, total_original_size, failed_files,
                   original_size, dispatched, taken, stopAt, stopTaken,
                   bundledCallable, systemCallable>>

\* lines 109-111 and 136-158: compress_file raises
CompressRaises ==
    /\ pc = "call"
    /\ \E err \in CompressOutcomes(files[idx]) \ {"ok"} : FailCurrent(err, <<>>)
    /\ inflight' = inflight \ {idx}
    /\ UNCHANGED <<files, stopped, total_original_size, original_size,
                   dispatched, taken, stopAt, stopTaken, bundledCallable,
                   systemCallable>>

\* line 114: compress_file returned, os.path.getsize(compressed_file) raises
CompressedSizeFails ==
    /\ pc = "call"
    /\ "ok" \in CompressOutcomes(files[idx])
    /\ FailCurrent("getsize_output", <<>>)
    /\ inflight' = inflight \ {idx}
    /\ UNCHANGED <<files, stopped, total_original_size, original_size,
                   dispatched, taken, stopAt, stopTaken, bundledCallable,
                   systemCallable>>

\* lines 160-165: the consolidated failure report
EmitReport ==
    /\ pc = "report"
    /\ signals' = IF failed_files # <<>>
                  THEN Append(signals, FailureReport(failed_files))
                  ELSE signals
    /\ pc' = "final"
    /\ UNCHANGED <<files, stopped, idx, processed_files, total_original_size,
                   total_compressed_size, failed_files, file_stats,
                   original_size, dispatched, inflight, taken, stopAt,
                   stopTaken, bundledCallable, systemCallable>>

\* lines 167-176: the final progress_update
EmitFinal ==
    /\ pc = "final"
    /\ signals' = Append(signals, TerminalProgress)
    /\ pc' = "finish"
    /\ UNCHANGED <<files, stopped, idx, processed_files, total_original_size,
                   total_compressed_size, failed_files, file_stats,
                   original_size, dispatched, inflight, taken, stopAt,
                   stopTaken, bundledCallable, systemCallable>>

\* line 178: compression_finished, and run() returns
EmitFinished ==
    /\ pc = "finish"
    /\ signals' = Append(signals, CompressionFinished)
    /\ pc' = "done"
    /\ UNCHANGED <<files, stopped, idx, processed_files, total_original_size,
                   total_compressed_size, failed_files, file_stats,
                   original_size, dispatched, inflight, taken, stopAt,
                   stopTaken, bundledCallable, systemCallable>>

\* CompressionThread.stop, called by the UI thread while the worker runs
Stop ==
    /\ pc # "done"
    /\ ~stopped
    /\ stopped' = TRUE
    /\ stopAt' = Len(dispatched)
    /\ stopTaken' = Len(taken)
    /\ UNCHANGED <<files, pc, idx, processed_files, total_original_size,
                   total_compressed_size, failed_files, file_stats,
                   original_size, signals, dispatched, inflight, taken,
                   bundledCallable, systemCallable>>

Worker ==
    \/ RunStart \/ LoopEnter \/ LoopExit
    \/ PreTaskOk \/ PreTaskGetsizeFails \/ PreTaskMakedirsFails
    \/ CompressReturns \/ CompressRaises \/ CompressedSizeFails
    \/ EmitReport \/ EmitFinal \/ EmitFinished

\* the state of _process_heic while no call of it is modelled
HeicIdle ==
    /\ hpc = "idle"
    /\ quality = "none"
    /\ attempts = <<>>
    /\ hresult = "none"
    /\ herror = "none"
    /\ darwin = FALSE

\* the state of compress_file while no call of it is modelled
ManagerIdle ==
    /\ mpc = "idle"
    /\ ext = "none"
    /\ quality_level = "none"
    /\ source = "absent"
    /\ readable = FALSE
    /\ same_dir = FALSE
    /\ outdir_exists = FALSE
    /\ outdir_existed = FALSE
    /\ output = "absent"
    /\ invoked = "none"
    /\ mresult = "none"
    /\ merror = "none"

\* the state of the VideoProcessor while it is not modelled
\* no exception: the kind of the exception and the diagnostic output attached
\* to its message
NoVideoError == [kind |-> "none", detail |-> "none"]

VideoIdle ==
    /\ bundledTool = "runs"
    /\ systemTool = "runs"
    /\ ffmpeg_path = "unset"
    /\ ffprobe_path = "unset"
    /\ instances = 0
    /\ discoveries = 0
    /\ vpc = "idle"
    /\ vquality = "none"
    /\ calls = <<>>
    /\ ncalls = 0
    /\ vresult = "none"
    /\ verror = NoVideoError

\* the state of the image dimensions while no re-encoding is modelled
ResizeIdle ==
    /\ rpc = "idle"
    /\ route = "none"
    /\ width = 0
    /\ height = 0
    /\ out_width = 0
    /\ out_height = 0

\* the state of the file selection while it is not modelled
NamingIdle ==
    /\ npc = "idle"
    /\ disk = {}
    /\ files_to_compress = <<>>
    /\ nrun = 0
    /\ written = <<>>

\* the state of the window and of its worker while they are not modelled
UiIdle ==
    /\ upc = "idle"
    /\ wpc = "none"
    /\ wleft = 0
    /\ wprocessed = 0
    /\ wfailed = FALSE
    /\ wstop = FALSE
    /\ queue = <<>>
    /\ start_btn = FALSE
    /\ stop_btn = FALSE
    /\ batches = 0
    /\ finalized = <<>>
    /\ slot_error = FALSE
    /\ overlapped = FALSE

\* CompressionThread.__init__ and start(): MainWindow.start_compression
\* refuses an empty files_to_compress
Init ==
    /\ files \in SeqsUpTo(FileKinds, MaxFiles) \ {<<>>}
    /\ stopped = FALSE
    /\ pc = "start"
    /\ idx = 1
    /\ processed_files = 0
    /\ total_original_size = 0
    /\ total_compressed_size = 0
    /\ failed_files = <<>>
    /\ file_stats = <<>>
    /\ original_size = 0
    /\ signals = <<>>
    /\ dispatched = <<>>
    /\ inflight = {}
    /\ taken = <<>>
    /\ stopAt = -1
    /\ stopTaken = -1
    /\ bundledCallable \in BOOLEAN
    /\ systemCallable \in BOOLEAN
    /\ HeicIdle
    /\ ManagerIdle
    /\ VideoIdle
    /\ ResizeIdle
    /\ NamingIdle
    /\ UiIdle

Next ==
    \/ (Worker /\ UNCHANGED <<heicVars, managerVars, videoVars, resizeVars, namingVars, uiVars>>)
    \/ (Stop /\ UNCHANGED <<heicVars, managerVars, videoVars, resizeVars, namingVars, uiVars>>)

Spec == Init /\ [][Next]_vars

\* the worker is a thread of its own: it keeps running until run() returns,
\* and each blocking call it makes returns or raises
FairSpec ==
    Spec /\ WF_vars(Worker /\ UNCHANGED <<heicVars, managerVars, videoVars, resizeVars, namingVars, uiVars>>)

(***************************************************************************)
(* ImageProcessor._process_heic                                            *)
(***************************************************************************)
\* the items of MainWindow.quality_combo: Максимальное, Высокое, Среднее,
\* Низкое
QualityLevels == {"Maximum", "High", "Medium", "Low"}

\* ImageProcessor.heic_quality_map: Высокое, Среднее, Низкое
heic_quality_map == [q \in {"High", "Medium", "Low"} |->
                        CASE q = "High" -> 75 [] q = "Medium" -> 60 [] q = "Low" -> 40]

\* self.heic_quality_map[quality] evaluates (no KeyError)
HeicQualityFound(q) == q \in DOMAIN heic_quality_map

\* the order of the four try blocks
Mechanisms == <<"native", "sips", "convert", "ffmpeg">>

\* mutant of NextMechanism: ImageMagick is tried before sips
NextMechanismSwapped(m) ==
    CASE m = "native" -> "convert"
      [] m = "convert" -> "sips"
      [] m = "sips" -> "ffmpeg"
      [] m = "ffmpeg" -> "raise"

\* the try block that follows the try block of mechanism m
NextMechanism(m) ==
    CASE m = "native" -> "sips"
      [] m = "sips" -> "convert"
      [] m = "convert" -> "ffmpeg"
      [] m = "ffmpeg" -> "raise"

\* mutant of AfterFailure: no inner handler, any failure leaves the call
AfterFailureAborts(m) == "raise"

\* where control goes when mechanism m raised: the first three handlers log a
\* warning and fall through, the fourth logs an error and re-raises
AfterFailure(m) == IF m = "ffmpeg" THEN "raise" ELSE NextMechanism(m)

\* where control goes when mechanism m is not there (its if is false)
AfterSkip(m) == NextMechanism(m)

\* one step of the chain: mechanism m was skipped, failed (with the exception
\* named by cause) or succeeded
HeicStep(m, outcome, cause) ==
    /\ attempts' = Append(attempts, <<m, outcome, cause>>)
    /\ LET to == CASE outcome = "ok" -> "return"
                   [] outcome = "failed" -> AfterFailure(m)
                   [] outcome = "skipped" -> AfterSkip(m)
       IN  /\ hpc' = IF to \in {"return", "raise"} THEN "done" ELSE to
           /\ hresult' = CASE to = "return" -> "returned"
                           [] to = "raise" -> "raised"
                           [] OTHER -> "none"
           /\ herror' = CASE to = "raise" /\ outcome = "failed" -> cause
                          [] to = "raise" /\ outcome # "failed" -> "no_method"
                          [] OTHER -> "none"
    /\ UNCHANGED <<quality, darwin>>

\* what a subprocess.run([...str(self.heic_quality_map[quality])...],
\* check=True) can do: the argument list raises KeyError before anything
\* runs, or the tool runs and exits with or without an error
RunWithQuality(q) ==
    IF HeicQualityFound(q)
    THEN {<<"ok", "none">>, <<"failed", "CalledProcessError">>}
    ELSE {<<"failed", "KeyError">>}

\* lines 132-158: Image.open, resize, img.save at heic_quality_map[quality]
HeicNative ==
    /\ hpc = "native"
    /\ \E r \in {<<"failed", "open">>} \cup
                (IF HeicQualityFound(quality)
                 THEN {<<"ok", "none">>, <<"failed", "save">>}
                 ELSE {<<"failed", "KeyError">>}) :
          HeicStep("native", r[1], r[2])

\* lines 161-178: sips, on macOS only
HeicSips ==
    /\ hpc = "sips"
    /\ \E r \in (IF darwin
                 THEN {<<"ok", "none">>, <<"failed", "CalledProcessError">>}
                 ELSE {<<"skipped", "none">>}) :
          HeicStep("sips", r[1], r[2])

\* lines 181-196: ImageMagick convert, if shutil.which finds it
HeicConvert ==
    /\ hpc = "convert"
    /\ \E r \in {<<"skipped", "none">>} \cup RunWithQuality(quality) :
          HeicStep("convert", r[1], r[2])

\* lines 199-222: ffmpeg, if shutil.which finds it; otherwise the final raise
HeicFfmpeg ==
    /\ hpc = "ffmpeg"
    /\ \E r \in {<<"skipped", "none">>} \cup RunWithQuality(quality) :
          HeicStep("ffmpeg", r[1], r[2])

\* the state of CompressionThread while only _process_heic is modelled
BatchIdle ==
    /\ files = <<"image">>
    /\ stopped = FALSE
    /\ pc = "call"
    /\ idx = 1
    /\ processed_files = 0
    /\ total_original_size = 0
    /\ total_compressed_size = 0
    /\ failed_files = <<>>
    /\ file_stats = <<>>
    /\ original_size = 0
    /\ signals = <<>>
    /\ dispatched = <<1>>
    /\ inflight = {1}
    /\ taken = <<1>>
    /\ stopAt = -1
    /\ stopTaken = -1
    /\ bundledCallable = TRUE
    /\ systemCallable = TRUE

\* compress_image calls _process_heic(image_path, output_path, quality_level)
HeicInit ==
    /\ BatchIdle
    /\ ManagerIdle
    /\ VideoIdle
    /\ ResizeIdle
    /\ NamingIdle
    /\ UiIdle
    /\ hpc = "native"
    /\ quality \in QualityLevels
    /\ attempts = <<>>
    /\ hresult = "none"
    /\ herror = "none"
    /\ darwin \in BOOLEAN

HeicNext ==
    \/ (HeicNative /\ UNCHANGED <<batchVars, managerVars, videoVars, resizeVars, namingVars, uiVars>>)
    \/ (HeicSips /\ UNCHANGED <<batchVars, managerVars, videoVars, resizeVars, namingVars, uiVars>>)
    \/ (HeicConvert /\ UNCHANGED <<batchVars, managerVars, videoVars, resizeVars, namingVars, uiVars>>)
    \/ (HeicFfmpeg /\ UNCHANGED <<batchVars, managerVars, videoVars, resizeVars, namingVars, uiVars>>)

HeicSpec == HeicInit /\ [][HeicNext]_vars

(***************************************************************************)
(* CompressionManager.compress_file and ImageProcessor.compress_image      *)
(***************************************************************************)
\* lower-cased extensions a caller can pass; "txt" stands for any extension
\* outside both lists
Extensions == {"jpg", "jpeg", "png", "gif", "heic", "mp4", "mov", "avi", "txt"}

image_extensions == {"jpg", "jpeg", "png", "gif", "heic"}
video_extensions == {"mp4", "mov", "avi"}

\* ImageProcessor.quality_map: Высокое, Среднее, Низкое
quality_map == [q \in {"High", "Medium", "Low"} |->
                   CASE q = "High" -> 80 [] q = "Medium" -> 65 [] q = "Low" -> 50]

\* VideoProcessor.quality_map: crf, preset and audio bitrate (kbit/s) of the
\* four levels
\* mutant of video_quality_map: the crf values of the High and Low rows are
\* exchanged
video_quality_map_swapped ==
    [q \in {"Maximum", "High", "Medium", "Low"} |->
        CASE q = "Maximum" -> [crf |-> 18, preset |-> "slow", audio_bitrate |-> 320]
          [] q = "High" -> [crf |-> 26, preset |-> "medium", audio_bitrate |-> 256]
          [] q = "Medium" -> [crf |-> 23, preset |-> "faster", audio_bitrate |-> 192]
          [] q = "Low" -> [crf |-> 20, preset |-> "veryfast", audio_bitrate |-> 128]]

video_quality_map ==
    [q \in {"Maximum", "High", "Medium", "Low"} |->
        CASE q = "Maximum" -> [crf |-> 18, preset |-> "slow", audio_bitrate |-> 320]
          [] q = "High" -> [crf |-> 20, preset |-> "medium", audio_bitrate |-> 256]
          [] q = "Medium" -> [crf |-> 23, preset |-> "faster", audio_bitrate |-> 192]
          [] q = "Low" -> [crf |-> 26, preset |-> "veryfast", audio_bitrate |-> 128]]

\* output_path is file_path: the output keeps the file's name (an image) or
\* is the stem plus .mp4 (a video), in the directory of the source
SamePath == same_dir /\ ext \notin {"mov", "avi"}

\* mutant of SourceMissing: the existence check is skipped
SourceMissingIgnored == FALSE

\* not os.path.exists(file_path)
SourceMissing == source = "absent"

\* a call ends: it returns output_path or raises
ManagerEnds(result, error) ==
    /\ mpc' = "done"
    /\ mresult' = result
    /\ merror' = error

\* a processor writes content to output_path
WriteOutput(content) ==
    /\ output' = content
    /\ source' = IF SamePath THEN content ELSE source

\* lines 33-35: the source must exist
CheckSource ==
    /\ mpc = "check_source"
    /\ IF SourceMissing
       THEN ManagerEnds("raised", "FileNotFoundError")
       ELSE mpc' = "ensure_dir" /\ UNCHANGED <<mresult, merror>>
    /\ UNCHANGED <<ext, quality_level, source, readable, same_dir,
                   outdir_exists, outdir_existed, output, invoked>>

\* lines 37-39: the output directory is created if it is not there
EnsureDir ==
    /\ mpc = "ensure_dir"
    /\ outdir_exists' = TRUE
    /\ mpc' = "classify"
    /\ UNCHANGED <<ext, quality_level, source, readable, same_dir,
                   outdir_existed, output, invoked, mresult, merror>>

\* lines 37-39: os.makedirs raises
EnsureDirFails ==
    /\ mpc = "ensure_dir"
    /\ ~outdir_exists
    /\ ManagerEnds("raised", "makedirs_error")
    /\ UNCHANGED <<ext, quality_level, source, readable, same_dir,
                   outdir_exists, outdir_existed, output, invoked>>

\* lines 41-71: the extension selects the processor, or the file is rejected
\* with the ValueError that names both lists
Classify ==
    /\ mpc = "classify"
    /\ IF ext \in image_extensions
       THEN /\ invoked' = "image"
            /\ mpc' = IF ext = "heic" THEN "heic" ELSE "image"
            /\ UNCHANGED <<mresult, merror>>
       ELSE IF ext \in video_extensions
       THEN /\ invoked' = "video"
            /\ mpc' = "video"
            /\ UNCHANGED <<mresult, merror>>
       ELSE /\ ManagerEnds("raised", "UnsupportedFormat")
            /\ UNCHANGED invoked
    /\ UNCHANGED <<ext, quality_level, source, readable, same_dir,
                   outdir_exists, outdir_existed, output>>

\* what compress_image does with a file that is not HEIC (lines 64-96):
\* Image.open, then self.quality_map[quality_level], then the branch of the
\* extension; every exception is wrapped into one Exception
ImageOutcomes ==
    IF ~readable THEN {"image_open"}
    ELSE IF quality_level \notin DOMAIN quality_map THEN {"image_KeyError"}
    ELSE IF ext = "gif"
    THEN IF SamePath THEN {"SameFileError"} ELSE {"ok"}
    ELSE {"ok", "image_save"}

\* what compress_image leaves at output_path when it returns
ImageContent ==
    CASE ext \in {"jpg", "jpeg"} -> "jpeg_reencoded"
      [] ext = "png" -> "png_reencoded"
      [] ext = "gif" -> source

\* ImageProcessor.compress_image, lines 53-96, for JPEG, PNG and GIF
CompressImage ==
    /\ mpc = "image"
    /\ \E r \in ImageOutcomes :
          IF r = "ok"
          THEN ManagerEnds("returned", "none") /\ WriteOutput(ImageContent)
          ELSE ManagerEnds("raised", r) /\ UNCHANGED <<output, source>>
    /\ UNCHANGED <<ext, quality_level, readable, same_dir, outdir_exists,
                   outdir_existed, invoked>>

\* what _process_heic can do as a whole: a mechanism succeeds, all of them
\* fail, or the ffmpeg mechanism re-raises the KeyError of
\* self.heic_quality_map[quality]
HeicOutcomes ==
    {"ok", "heic_error"} \cup
    (IF HeicQualityFound(quality_level) THEN {} ELSE {"heic_KeyError"})

\* ImageProcessor.compress_image, lines 53-62, for HEIC
CompressHeic ==
    /\ mpc = "heic"
    /\ \E r \in HeicOutcomes :
          IF r = "ok"
          THEN ManagerEnds("returned", "none") /\ WriteOutput("heic_converted")
          ELSE ManagerEnds("raised", r) /\ UNCHANGED <<output, source>>
    /\ UNCHANGED <<ext, quality_level, readable, same_dir, outdir_exists,
                   outdir_existed, invoked>>

\* what compress_video can do as a whole; ffmpeg refuses an output that is its
\* input
VideoOutcomes ==
    (IF quality_level \in DOMAIN video_quality_map
     THEN {"video_error"} \cup (IF SamePath THEN {} ELSE {"ok"})
     ELSE {"video_KeyError"})
    \cup {"ffmpeg_unavailable"}

\* VideoProcessor.compress_video as compress_file sees it
CompressVideo ==
    /\ mpc = "video"
    /\ \E r \in VideoOutcomes :
          IF r = "ok"
          THEN ManagerEnds("returned", "none") /\ WriteOutput("video_transcoded")
          ELSE ManagerEnds("raised", r) /\ UNCHANGED <<output, source>>
    /\ UNCHANGED <<ext, quality_level, readable, same_dir, outdir_exists,
                   outdir_existed, invoked>>

\* a call compress_file(file_path, output_dir, quality_level)
ManagerInit ==
    /\ BatchIdle
    /\ HeicIdle
    /\ VideoIdle
    /\ ResizeIdle
    /\ NamingIdle
    /\ UiIdle
    /\ mpc = "check_source"
    /\ ext \in Extensions
    /\ quality_level \in QualityLevels
    /\ source \in {"absent", "original"}
    /\ readable \in BOOLEAN
    /\ (source = "absent" => ~readable)
    /\ same_dir \in BOOLEAN
    /\ outdir_exists \in BOOLEAN
    /\ (same_dir => outdir_exists)
    /\ outdir_existed = outdir_exists
    /\ output = IF SamePath THEN source ELSE "absent"
    /\ invoked = "none"
    /\ mresult = "none"
    /\ merror = "none"

ManagerNext ==
    \/ (CheckSource /\ UNCHANGED <<batchVars, heicVars, videoVars, resizeVars, namingVars, uiVars>>)
    \/ (EnsureDir /\ UNCHANGED <<batchVars, heicVars, videoVars, resizeVars, namingVars, uiVars>>)
    \/ (EnsureDirFails /\ UNCHANGED <<batchVars, heicVars, videoVars, resizeVars, namingVars, uiVars>>)
    \/ (Classify /\ UNCHANGED <<batchVars, heicVars, videoVars, resizeVars, namingVars, uiVars>>)
    \/ (CompressImage /\ UNCHANGED <<batchVars, heicVars, videoVars, resizeVars, namingVars, uiVars>>)
    \/ (CompressHeic /\ UNCHANGED <<batchVars, heicVars, videoVars, resizeVars, namingVars, uiVars>>)
    \/ (CompressVideo /\ UNCHANGED <<batchVars, heicVars, videoVars, resizeVars, namingVars, uiVars>>)

ManagerSpec == ManagerInit /\ [][ManagerNext]_vars

(***************************************************************************)
(* VideoProcessor: __init__, _check_ffmpeg and compress_video              *)
(***************************************************************************)
\* what running a binary with -version does: the file is missing
\* (FileNotFoundError), it starts and exits non-zero (CalledProcessError), or
\* it answers
ToolStatus == {"absent", "broken", "runs"}

\* the binary a tool path names: bin/ffmpeg of the bundle, or "ffmpeg" on PATH
StatusOf(path) == IF path = "bundled" THEN bundledTool ELSE systemTool

\* _get_ffmpeg_path and _get_ffprobe_path: the bundled binary when its file
\* exists (bin/ffmpeg and bin/ffprobe ship together), else the bare name
ResolvePath == IF bundledTool # "absent" THEN "bundled" ELSE "system"

\* the path resolution is not remembered between constructions
DiscoverCached(n) == IF n = 0 THEN 1 ELSE n

\* one more run of _get_ffmpeg_path and _get_ffprobe_path
Discover(n) == n + 1

\* check=True left out: a binary that exits non-zero passes
VersionPassesIfPresent(status) == status # "absent"

\* subprocess.run([path, "-version"], check=True) returns
VersionPasses(status) == status = "runs"

VersionOutcome(status) ==
    IF VersionPasses(status) THEN "ok"
    ELSE IF status = "absent" THEN "FileNotFoundError"
    ELSE "CalledProcessError"

VersionCall(path) ==
    [kind |-> "version", tool |-> path, outcome |-> VersionOutcome(StatusOf(path))]

\* what the encoder's diagnostic output is when a transcode fails
Stderr(variant, outcome) ==
    IF outcome = "ok" THEN "none"
    ELSE IF variant = "primary" THEN "primary_stderr" ELSE "fallback_stderr"

\* the primary command line: the settings of the quality level, -map_metadata
\* 0, -movflags faststart, -y
PrimaryCmd(outcome) ==
    [kind |-> "transcode", variant |-> "primary", tool |-> ffmpeg_path,
     crf |-> video_quality_map[vquality].crf,
     preset |-> video_quality_map[vquality].preset,
     audio_bitrate |-> video_quality_map[vquality].audio_bitrate,
     map_metadata |-> TRUE, faststart |-> TRUE, overwrite |-> TRUE,
     outcome |-> outcome, stderr |-> Stderr("primary", outcome)]

\* the fallback command line: -crf 20 -preset medium -b:a 192k -y
FallbackCmd(outcome) ==
    [kind |-> "transcode", variant |-> "fallback", tool |-> ffmpeg_path,
     crf |-> 20, preset |-> "medium", audio_bitrate |-> 192,
     map_metadata |-> FALSE, faststart |-> FALSE, overwrite |-> TRUE,
     outcome |-> outcome, stderr |-> Stderr("fallback", outcome)]

\* the encoder that has just answered -version starts; it exits with 0 or
\* with an error status (CalledProcessError, a SubprocessError)
TranscodeOutcomes == {"ok", "CalledProcessError"}

\* the primary failure is not retried
AfterPrimaryGivesUp(outcome) == "done"

\* except subprocess.SubprocessError: the fallback is tried
AfterPrimary(outcome) == IF outcome = "ok" THEN "done" ELSE "fallback"

\* VideoProcessor(): CompressionManager.__init__, once for each
\* CompressionThread and for each TestCompressionWorker
NewProcessor ==
    /\ vpc \in {"idle", "done"}
    /\ instances < MaxProcessors
    /\ instances' = instances + 1
    /\ discoveries' = Discover(discoveries)
    /\ ffmpeg_path' = ResolvePath
    /\ ffprobe_path' = ResolvePath
    /\ vpc' = "idle"
    /\ UNCHANGED <<bundledTool, systemTool, vquality, calls, ncalls, vresult, verror>>

\* compress_video is called on the current processor
VideoBegin ==
    /\ vpc \in {"idle", "done"}
    /\ instances >= 1
    /\ ncalls < MaxCalls
    /\ \E q \in QualityLevels : vquality' = q
    /\ ncalls' = ncalls + 1
    /\ calls' = <<>>
    /\ vresult' = "none"
    /\ verror' = NoVideoError
    /\ vpc' = "check"
    /\ UNCHANGED <<bundledTool, systemTool, ffmpeg_path, ffprobe_path, instances, discoveries>>

\* the paths are rebound whenever the system encoder answers
RebindsWheneverSystemRuns(first, second) == second.outcome = "ok"

\* lines 139-148: the second check is made when the first failed, and its
\* success rebinds self.ffmpeg_path and self.ffprobe_path
Rebinds(first, second) == first.outcome # "ok" /\ second.outcome = "ok"

\* _check_ffmpeg, then the lookup of the settings
VideoCheck ==
    /\ vpc = "check"
    /\ LET first == VersionCall(ffmpeg_path)
           second == VersionCall("system")
           passed == first.outcome = "ok" \/ second.outcome = "ok"
       IN  /\ calls' = IF first.outcome = "ok" THEN <<first>> ELSE <<first, second>>
           /\ IF Rebinds(first, second)
              THEN ffmpeg_path' = "system" /\ ffprobe_path' = "system"
              ELSE UNCHANGED <<ffmpeg_path, ffprobe_path>>
           /\ IF ~passed
              THEN /\ vpc' = "done"
                   /\ vresult' = "raised"
                   /\ verror' = [kind |-> "ffmpeg_unavailable", detail |-> "none"]
              ELSE IF vquality \notin DOMAIN video_quality_map
              THEN /\ vpc' = "done"
                   /\ vresult' = "raised"
                   /\ verror' = [kind |-> "KeyError", detail |-> "none"]
              ELSE /\ vpc' = "primary"
                   /\ UNCHANGED <<vresult, verror>>
    /\ UNCHANGED <<bundledTool, systemTool, instances, discoveries, vquality, ncalls>>

\* the primary subprocess.run
VideoPrimary ==
    /\ vpc = "primary"
    /\ \E outcome \in TranscodeOutcomes :
          /\ calls' = Append(calls, PrimaryCmd(outcome))
          /\ vpc' = AfterPrimary(outcome)
          /\ vresult' = IF outcome = "ok" THEN "returned" ELSE "none"
    /\ UNCHANGED <<bundledTool, systemTool, ffmpeg_path, ffprobe_path, instances,
                   discoveries, vquality, ncalls, verror>>

\* the fallback subprocess.run; its failure is logged with its stderr and
\* raised as Exception("Не удалось сжать видео. ...")
VideoFallback ==
    /\ vpc = "fallback"
    /\ \E outcome \in TranscodeOutcomes :
          /\ calls' = Append(calls, FallbackCmd(outcome))
          /\ vpc' = "done"
          /\ IF outcome = "ok"
             THEN vresult' = "returned" /\ UNCHANGED verror
             ELSE /\ vresult' = "raised"
                  /\ verror' = [kind |-> "encode_failed", detail |-> "none"]
    /\ UNCHANGED <<bundledTool, systemTool, ffmpeg_path, ffprobe_path, instances,
                   discoveries, vquality, ncalls>>

VideoInit ==
    /\ BatchIdle
    /\ HeicIdle
    /\ ManagerIdle
    /\ ResizeIdle
    /\ NamingIdle
    /\ UiIdle
    /\ bundledTool \in ToolStatus
    /\ systemTool \in ToolStatus
    /\ ffmpeg_path = "unset"
    /\ ffprobe_path = "unset"
    /\ instances = 0
    /\ discoveries = 0
    /\ vpc = "idle"
    /\ vquality = "none"
    /\ calls = <<>>
    /\ ncalls = 0
    /\ vresult = "none"
    /\ verror = NoVideoError

VideoNext ==
    \/ (NewProcessor /\ UNCHANGED <<batchVars, heicVars, managerVars, resizeVars, namingVars, uiVars>>)
    \/ (VideoBegin /\ UNCHANGED <<batchVars, heicVars, managerVars, resizeVars, namingVars, uiVars>>)
    \/ (VideoCheck /\ UNCHANGED <<batchVars, heicVars, managerVars, resizeVars, namingVars, uiVars>>)
    \/ (VideoPrimary /\ UNCHANGED <<batchVars, heicVars, managerVars, resizeVars, namingVars, uiVars>>)
    \/ (VideoFallback /\ UNCHANGED <<batchVars, heicVars, managerVars, resizeVars, namingVars, uiVars>>)

VideoSpec == VideoInit /\ [][VideoNext]_vars

(***************************************************************************)
(* ImageProcessor: the dimensions of the re-encoded image                  *)
(***************************************************************************)
\* max_dimension of _process_heic; the same number is in the scale filter of
\* the ffmpeg mechanism
max_dimension == 4096

\* side lengths of the inputs, around max_dimension
Sides == {1, 3000, 4096, 4097, 6000, 8192}

\* the code paths that write a re-encoded image: compress_image for JPEG and
\* PNG, and the four mechanisms of _process_heic
Routes == {"jpeg", "png", "heic_native", "heic_sips", "heic_convert", "heic_ffmpeg"}

Min(a, b) == IF a <= b THEN a ELSE b
Max(a, b) == IF a >= b THEN a ELSE b

\* int(side * ratio) with ratio = min(max_dimension / width, max_dimension /
\* height), which is max_dimension over the longer side
Scaled(side) == (side * max_dimension) \div Max(width, height)

\* the division of the scale filter, rounded to the nearest integer
Rounded(a, b) == (2 * a + b) \div (2 * b)

\* lines 134-145 of _process_heic: the side of the image that is saved
NativeSize(side) ==
    IF width > max_dimension \/ height > max_dimension THEN Scaled(side) ELSE side

\* scale=iw*min(4096/iw,1):ih*min(4096/ih,1):force_original_aspect_ratio=
\* decrease - the box is each side capped at 4096, and the picture is fitted
\* into it
FfmpegWidth ==
    Min(Rounded(Min(height, max_dimension) * width, height), Min(width, max_dimension))
FfmpegHeight ==
    Min(Rounded(Min(width, max_dimension) * height, width), Min(height, max_dimension))

\* the image is written with the given dimensions
Written(w, h) ==
    /\ rpc' = "done"
    /\ out_width' = w
    /\ out_height' = h
    /\ UNCHANGED <<route, width, height>>

\* compress_image, lines 66-83: img.save of the opened image, JPEG or PNG
SaveImage ==
    /\ rpc = "open"
    /\ route \in {"jpeg", "png"}
    /\ Written(width, height)

\* _process_heic, lines 132-158: resize when a side exceeds max_dimension,
\* then img.save; Image.resize refuses a side of 0
SaveHeicNative ==
    /\ rpc = "open"
    /\ route = "heic_native"
    /\ IF NativeSize(width) = 0 \/ NativeSize(height) = 0
       THEN /\ rpc' = "failed"
            /\ UNCHANGED <<route, width, height, out_width, out_height>>
       ELSE Written(NativeSize(width), NativeSize(height))

\* _process_heic, lines 161-196: sips -s format jpeg, or convert -quality
SaveHeicExternal ==
    /\ rpc = "open"
    /\ route \in {"heic_sips", "heic_convert"}
    /\ Written(width, height)

\* _process_heic, lines 199-215: ffmpeg with the scale filter
SaveHeicFfmpeg ==
    /\ rpc = "open"
    /\ route = "heic_ffmpeg"
    /\ Written(FfmpegWidth, FfmpegHeight)

ResizeInit ==
    /\ BatchIdle
    /\ HeicIdle
    /\ ManagerIdle
    /\ VideoIdle
    /\ NamingIdle
    /\ UiIdle
    /\ rpc = "open"
    /\ route \in Routes
    /\ width \in Sides
    /\ height \in Sides
    /\ out_width = 0
    /\ out_height = 0

ResizeNext ==
    \/ (SaveImage /\ UNCHANGED <<batchVars, heicVars, managerVars, videoVars, namingVars, uiVars>>)
    \/ (SaveHeicNative /\ UNCHANGED <<batchVars, heicVars, managerVars, videoVars, namingVars, uiVars>>)
    \/ (SaveHeicExternal /\ UNCHANGED <<batchVars, heicVars, managerVars, videoVars, namingVars, uiVars>>)
    \/ (SaveHeicFfmpeg /\ UNCHANGED <<batchVars, heicVars, managerVars, videoVars, namingVars, uiVars>>)

ResizeSpec == ResizeInit /\ [][ResizeNext]_vars

(***************************************************************************)
(* MainWindow.add_files, add_folder and the output path of a task          *)
(***************************************************************************)
\* folders of the disk: A/sub is a subfolder of A
Dirs == {"A", "A/sub", "B"}

\* a file path: folder, stem and lower-cased extension
DiskFiles == [dir : Dirs, stem : {"x"}, ext : {"jpg", "mp4", "mov"}]

\* os.walk(folder_path): the files in the folder and in its subfolders
Under(base) == {f \in disk : f.dir = base \/ (base = "A" /\ f.dir = "A/sub")}

\* the directory part of os.path.relpath(file_path, base_folder)
RelDir(base, dir) == IF dir = base THEN "." ELSE "sub"

\* add_files: the tuple (file_path, os.path.basename(file_path))
FileTask(f) == [path |-> f, rel |-> [dir |-> ".", name |-> <<f.stem, f.ext>>]]

\* add_folder: the tuple (file_path, os.path.relpath(file_path, base_folder))
FolderTask(base, f) ==
    [path |-> f, rel |-> [dir |-> RelDir(base, f.dir), name |-> <<f.stem, f.ext>>]]

InSelection(t) == \E k \in 1..Len(files_to_compress) : files_to_compress[k] = t

\* the path a task writes: output_subdir is the directory of
\* os.path.join(output_dir, rel_path); an image keeps its file name
\* (image_processor.py:58), a video gets its stem plus .mp4
\* (video_processor.py:231-232)
OutputPath(t) ==
    [dir |-> t.rel.dir,
     name |-> IF t.path.ext \in video_extensions
              THEN <<t.path.stem, "mp4">>
              ELSE <<t.path.stem, t.path.ext>>]

\* the sequences that list the elements of S, each once
Orderings(S) ==
    {s \in SeqsUpTo(S, Cardinality(S)) :
        Len(s) = Cardinality(S) /\ \A x \in S : \E k \in 1..Len(s) : s[k] = x}

\* add_files([f]): appended unless the same tuple is in the list
AddFiles ==
    /\ npc = "select"
    /\ \E f \in disk :
          files_to_compress' = IF InSelection(FileTask(f)) THEN files_to_compress
                               ELSE Append(files_to_compress, FileTask(f))
    /\ UNCHANGED <<npc, disk, nrun, written>>

\* add_folder(base): every supported file under the folder, in the order
\* os.walk yields them, unless the same tuple is in the list
AddFolder ==
    /\ npc = "select"
    /\ \E base \in Dirs :
          LET new == {t \in {FolderTask(base, f) : f \in Under(base)} : ~InSelection(t)}
          IN  \E s \in Orderings(new) : files_to_compress' = files_to_compress \o s
    /\ UNCHANGED <<npc, disk, nrun, written>>

\* start_compression hands files_to_compress to a CompressionThread; an empty
\* list is refused
StartBatch ==
    /\ npc = "select"
    /\ files_to_compress # <<>>
    /\ npc' = "run"
    /\ nrun' = 1
    /\ UNCHANGED <<disk, files_to_compress, written>>

\* the batch moves past the current task
NextTask ==
    /\ nrun' = nrun + 1
    /\ npc' = IF nrun = Len(files_to_compress) THEN "done" ELSE "run"
    /\ UNCHANGED <<disk, files_to_compress>>

\* compress_file returns for the current task: its output file is written
TaskWrites ==
    /\ npc = "run"
    /\ written' = Append(written, [task |-> nrun,
                                   path |-> OutputPath(files_to_compress[nrun])])
    /\ NextTask

\* compress_file raises for the current task
TaskFails ==
    /\ npc = "run"
    /\ UNCHANGED written
    /\ NextTask

NamingInit ==
    /\ BatchIdle
    /\ HeicIdle
    /\ ManagerIdle
    /\ VideoIdle
    /\ ResizeIdle
    /\ UiIdle
    /\ npc = "select"
    /\ disk \in {d \in SUBSET DiskFiles : Cardinality(d) \in 1..MaxDisk}
    /\ files_to_compress = <<>>
    /\ nrun = 0
    /\ written = <<>>

NamingNext ==
    \/ (AddFiles /\ UNCHANGED <<batchVars, heicVars, managerVars, videoVars, resizeVars, uiVars>>)
    \/ (AddFolder /\ UNCHANGED <<batchVars, heicVars, managerVars, videoVars, resizeVars, uiVars>>)
    \/ (StartBatch /\ UNCHANGED <<batchVars, heicVars, managerVars, videoVars, resizeVars, uiVars>>)
    \/ (TaskWrites /\ UNCHANGED <<batchVars, heicVars, managerVars, videoVars, resizeVars, uiVars>>)
    \/ (TaskFails /\ UNCHANGED <<batchVars, heicVars, managerVars, videoVars, resizeVars, uiVars>>)

NamingSpec == NamingInit /\ [][NamingNext]_vars

(***************************************************************************)
(* MainWindow and its CompressionThread: signals, slots and buttons        *)
(***************************************************************************)
\* a signal emitted by the worker of the current batch; the connections
\* cross threads, so the slot runs later, in the UI thread's event loop
Emitted(kind, eta, report) ==
    [kind |-> kind, eta |-> eta, report |-> report, batch |-> batches]

Emit(sigs) == queue' = queue \o sigs

\* QThread.isRunning(): the thread has been started and has not finished
IsRunning == wpc \notin {"none", "exited"}

\* the UI thread is in its event loop and the process is alive
UiReady == upc = "idle"
WorkerRuns == upc # "aborted"

\* remaining_time of a pre-task or post-task progress_update
EtaOf(p) == IF p = 0 THEN "None" ELSE "estimate"

\* lines 62-71: the initial progress_update, remaining_time None
WEmitInitial ==
    /\ WorkerRuns
    /\ wpc = "start"
    /\ Emit(<<Emitted("progress_update", "None", FALSE)>>)
    /\ wpc' = "loop"
    /\ UNCHANGED <<upc, wleft, wprocessed, wfailed, wstop, start_btn, stop_btn,
                   batches, finalized, slot_error, overlapped>>

\* lines 75-97: the loop takes the next file and emits its pre-task event
WTake ==
    /\ WorkerRuns
    /\ wpc = "loop"
    /\ wleft > 0 /\ ~wstop
    /\ Emit(<<Emitted("progress_update", EtaOf(wprocessed), FALSE)>>)
    /\ wleft' = wleft - 1
    /\ wpc' = "task"
    /\ UNCHANGED <<upc, wprocessed, wfailed, wstop, start_btn, stop_btn,
                   batches, finalized, slot_error, overlapped>>

\* lines 99-134 and 141-158: the file is compressed
WTaskOk ==
    /\ WorkerRuns
    /\ wpc = "task"
    /\ Emit(<<Emitted("file_processed", "None", FALSE),
              Emitted("progress_update", EtaOf(wprocessed + 1), FALSE)>>)
    /\ wprocessed' = wprocessed + 1
    /\ wpc' = "loop"
    /\ UNCHANGED <<upc, wleft, wfailed, wstop, start_btn, stop_btn,
                   batches, finalized, slot_error, overlapped>>

\* lines 136-158: the file fails
WTaskFails ==
    /\ WorkerRuns
    /\ wpc = "task"
    /\ Emit(<<Emitted("error_occurred", "None", FALSE),
              Emitted("progress_update", EtaOf(wprocessed + 1), FALSE)>>)
    /\ wprocessed' = wprocessed + 1
    /\ wfailed' = TRUE
    /\ wpc' = "loop"
    /\ UNCHANGED <<upc, wleft, wstop, start_btn, stop_btn,
                   batches, finalized, slot_error, overlapped>>

\* lines 75-77 and 160-165: the loop ends and the consolidated report is
\* emitted if a file failed
WReport ==
    /\ WorkerRuns
    /\ wpc = "loop"
    /\ wleft = 0 \/ wstop
    /\ Emit(IF wfailed THEN <<Emitted("error_occurred", "None", TRUE)>> ELSE <<>>)
    /\ wpc' = "final"
    /\ UNCHANGED <<upc, wleft, wprocessed, wfailed, wstop, start_btn, stop_btn,
                   batches, finalized, slot_error, overlapped>>

\* lines 167-176: the terminal progress_update, remaining_time 0
WFinal ==
    /\ WorkerRuns
    /\ wpc = "final"
    /\ Emit(<<Emitted("progress_update", "zero", FALSE)>>)
    /\ wpc' = "finish"
    /\ UNCHANGED <<upc, wleft, wprocessed, wfailed, wstop, start_btn, stop_btn,
                   batches, finalized, slot_error, overlapped>>

\* line 178: compression_finished.emit()
WFinished ==
    /\ WorkerRuns
    /\ wpc = "finish"
    /\ Emit(<<Emitted("compression_finished", "None", FALSE)>>)
    /\ wpc' = "returning"
    /\ UNCHANGED <<upc, wleft, wprocessed, wfailed, wstop, start_btn, stop_btn,
                   batches, finalized, slot_error, overlapped>>

\* run() returns and the thread finishes
WExit ==
    /\ WorkerRuns
    /\ wpc = "returning"
    /\ wpc' = "exited"
    /\ UNCHANGED <<upc, wleft, wprocessed, wfailed, wstop, queue, start_btn,
                   stop_btn, batches, finalized, slot_error, overlapped>>

\* on_compression_finished, lines 677-757, for the batch b
Finalize(b) ==
    /\ finalized' = [finalized EXCEPT ![b] = @ + 1]
    /\ start_btn' = TRUE
    /\ stop_btn' = FALSE

\* start_compression, lines 531-576, by a click on the enabled start button.
\* The new CompressionThread replaces self.compression_thread; when the old
\* thread still runs, its QThread object is destroyed under it, which Qt
\* treats as fatal
StartCompression ==
    /\ UiReady
    /\ start_btn
    /\ batches < MaxBatches
    /\ IF IsRunning
       THEN /\ overlapped' = TRUE
            /\ upc' = "aborted"
            /\ UNCHANGED <<wpc, wleft, wprocessed, wfailed, wstop, start_btn,
                           stop_btn, batches, finalized>>
       ELSE /\ start_btn' = FALSE
            /\ stop_btn' = TRUE
            /\ batches' = batches + 1
            /\ finalized' = Append(finalized, 0)
            /\ wpc' = "start"
            /\ \E n \in 1..MaxTasks : wleft' = n
            /\ wprocessed' = 0
            /\ wfailed' = FALSE
            /\ wstop' = FALSE
            /\ UNCHANGED <<upc, overlapped>>
    /\ UNCHANGED <<queue, slot_error>>

\* stop_compression, lines 635-642, by a click on the enabled stop button:
\* stop() and then wait(), which blocks the UI thread
StopCompression ==
    /\ UiReady
    /\ stop_btn
    /\ IsRunning
    /\ wstop' = TRUE
    /\ upc' = "waiting"
    /\ UNCHANGED <<wpc, wleft, wprocessed, wfailed, queue, start_btn, stop_btn,
                   batches, finalized, slot_error, overlapped>>

\* stop_compression, lines 643-644: wait() returns and
\* on_compression_finished is called directly
StopReturns ==
    /\ upc = "waiting"
    /\ wpc = "exited"
    /\ upc' = "idle"
    /\ Finalize(batches)
    /\ UNCHANGED <<wpc, wleft, wprocessed, wfailed, wstop, queue, batches,
                   slot_error, overlapped>>

\* update_progress, lines 598-633: int(progress_data["remaining_time"])
\* raises TypeError for None; the exception leaves the slot, and PyQt6 then
\* aborts the process unless an exception hook is installed, in which case
\* the event loop goes on
UpdateProgress ==
    /\ UiReady
    /\ queue # <<>>
    /\ Head(queue).kind = "progress_update"
    /\ queue' = Tail(queue)
    /\ IF Head(queue).eta = "None"
       THEN /\ slot_error' = TRUE
            /\ upc' \in {"idle", "aborted"}
       ELSE UNCHANGED <<slot_error, upc>>
    /\ UNCHANGED <<wpc, wleft, wprocessed, wfailed, wstop, start_btn, stop_btn,
                   batches, finalized, overlapped>>

\* on_file_processed, lines 646-675
OnFileProcessed ==
    /\ UiReady
    /\ queue # <<>>
    /\ Head(queue).kind = "file_processed"
    /\ queue' = Tail(queue)
    /\ UNCHANGED <<upc, wpc, wleft, wprocessed, wfailed, wstop, start_btn,
                   stop_btn, batches, finalized, slot_error, overlapped>>

\* on_error, lines 759-852: a dialog, and for the consolidated report a call
\* of on_compression_finished
OnError ==
    /\ UiReady
    /\ queue # <<>>
    /\ Head(queue).kind = "error_occurred"
    /\ queue' = Tail(queue)
    /\ IF Head(queue).report
       THEN Finalize(Head(queue).batch)
       ELSE UNCHANGED <<finalized, start_btn, stop_btn>>
    /\ UNCHANGED <<upc, wpc, wleft, wprocessed, wfailed, wstop, batches,
                   slot_error, overlapped>>

\* on_compression_finished as the slot of compression_finished
OnCompressionFinished ==
    /\ UiReady
    /\ queue # <<>>
    /\ Head(queue).kind = "compression_finished"
    /\ queue' = Tail(queue)
    /\ Finalize(Head(queue).batch)
    /\ UNCHANGED <<upc, wpc, wleft, wprocessed, wfailed, wstop, batches,
                   slot_error, overlapped>>

\* the window with files selected: add_files has enabled the start button
UiInit ==
    /\ BatchIdle
    /\ HeicIdle
    /\ ManagerIdle
    /\ VideoIdle
    /\ ResizeIdle
    /\ NamingIdle
    /\ upc = "idle"
    /\ wpc = "none"
    /\ wleft = 0
    /\ wprocessed = 0
    /\ wfailed = FALSE
    /\ wstop = FALSE
    /\ queue = <<>>
    /\ start_btn = TRUE
    /\ stop_btn = FALSE
    /\ batches = 0
    /\ finalized = <<>>
    /\ slot_error = FALSE
    /\ overlapped = FALSE

UiNext ==
    \/ (WEmitInitial /\ UNCHANGED <<batchVars, heicVars, managerVars, videoVars, resizeVars, namingVars>>)
    \/ (WTake /\ UNCHANGED <<batchVars, heicVars, managerVars, videoVars, resizeVars, namingVars>>)
    \/ (WTaskOk /\ UNCHANGED <<batchVars, heicVars, managerVars, videoVars, resizeVars, namingVars>>)
    \/ (WTaskFails /\ UNCHANGED <<batchVars, heicVars, managerVars, videoVars, resizeVars, namingVars>>)
    \/ (WReport /\ UNCHANGED <<batchVars, heicVars, managerVars, videoVars, resizeVars, namingVars>>)
    \/ (WFinal /\ UNCHANGED <<batchVars, heicVars, managerVars, videoVars, resizeVars, namingVars>>)
    \/ (WFinished /\ UNCHANGED <<batchVars, heicVars, managerVars, videoVars, resizeVars, namingVars>>)
    \/ (WExit /\ UNCHANGED <<batchVars, heicVars, managerVars, videoVars, resizeVars, namingVars>>)
    \/ (StartCompression /\ UNCHANGED <<batchVars, heicVars, managerVars, videoVars, resizeVars, namingVars>>)
    \/ (StopCompression /\ UNCHANGED <<batchVars, heicVars, managerVars, videoVars, resizeVars, namingVars>>)
    \/ (StopReturns /\ UNCHANGED <<batchVars, heicVars, managerVars, videoVars, resizeVars, namingVars>>)
    \/ (UpdateProgress /\ UNCHANGED <<batchVars, heicVars, managerVars, videoVars, resizeVars, namingVars>>)
    \/ (OnFileProcessed /\ UNCHANGED <<batchVars, heicVars, managerVars, videoVars, resizeVars, namingVars>>)
    \/ (OnError /\ UNCHANGED <<batchVars, heicVars, managerVars, videoVars, resizeVars, namingVars>>)
    \/ (OnCompressionFinished /\ UNCHANGED <<batchVars, heicVars, managerVars, videoVars, resizeVars, namingVars>>)

UiSpec == UiInit /\ [][UiNext]_vars

(***************************************************************************)
(* Vocabulary of the properties                                            *)
(***************************************************************************)
Count(seq, x) == Cardinality({k \in 1..Len(seq) : seq[k] = x})

IsFileProcessed(s) == s.sig = "file_processed"
IsFileError(s) == s.sig = "error_occurred" /\ s.file # 0
IsReport(s) == s.sig = "error_occurred" /\ s.file = 0

FileResults == SelectSeq(signals, IsFileProcessed)
FileErrors == SelectSeq(signals, IsFileError)
Reports == SelectSeq(signals, IsReport)

\* FileResults emitted for task i, entries of failed_files for task i
ResultsFor(i) == Cardinality({k \in 1..Len(FileResults) : FileResults[k].file = i})
FailuresFor(i) == Cardinality({k \in 1..Len(failed_files) : failed_files[k][1] = i})
OutcomesFor(i) == ResultsFor(i) + FailuresFor(i)

\* run() has left the loop
LeftLoop == pc \in {"report", "final", "finish", "done"}

RECURSIVE SumOriginal(_)
SumOriginal(stats) ==
    IF stats = <<>> THEN 0 ELSE Head(stats).original_size + SumOriginal(Tail(stats))
RECURSIVE SumCompressed(_)
SumCompressed(stats) ==
    IF stats = <<>> THEN 0 ELSE Head(stats).compressed_size + SumCompressed(Tail(stats))

\* the signals end with the terminal progress_update at 100 percent followed
\* by the only compression_finished
EndsWithTerminal ==
    /\ Len(signals) >= 2
    /\ signals[Len(signals)] = CompressionFinished
    /\ signals[Len(signals) - 1].sig = "progress_update"
    /\ signals[Len(signals) - 1].percent = 100
    /\ Count(signals, CompressionFinished) = 1

NoFfmpeg == ~bundledCallable /\ ~systemCallable

(***************************************************************************)
(* C1                                                                      *)
(***************************************************************************)
\* C1 as stated: in a batch that is never cancelled every task is dispatched
\* to CompressionManager exactly once and yields exactly one outcome, a
\* FileResult or an entry of the failed-files list.
C1_DispatchedExactlyOnce ==
    (pc = "done" /\ ~stopped) =>
        \A i \in 1..total_files :
            /\ Count(dispatched, i) = 1
            /\ OutcomesFor(i) = 1

\* C1 amended: in a batch that is never cancelled every task is taken up
\* exactly once, is dispatched to CompressionManager at most once (not at all
\* exactly when reading the source's size or creating its output directory
\* failed first), and yields exactly one outcome whichever tasks fail.
C1_OneOutcomePerTask ==
    (pc = "done" /\ ~stopped) =>
        \A i \in 1..total_files :
            /\ Count(taken, i) = 1
            /\ Count(dispatched, i) <= 1
            /\ (Count(dispatched, i) = 0) <=>
                  (\E k \in 1..Len(failed_files) :
                       failed_files[k] \in {<<i, "getsize_source">>, <<i, "makedirs">>})
            /\ OutcomesFor(i) = 1

C1_Witness ==
    /\ pc = "done" /\ ~stopped /\ total_files = 3
    /\ failed_files = <<<<1, "getsize_source">>, <<2, "image_error">>>>
    /\ dispatched = <<2, 3>>
    /\ ResultsFor(3) = 1

(***************************************************************************)
(* C2                                                                      *)
(***************************************************************************)
\* C2 as stated: stop() called after task i was dispatched and before task
\* i+1 is dispatched means that no task beyond i is ever dispatched.
C2_NoDispatchAfterStop ==
    stopAt >= 1 => Len(dispatched) = stopAt

\* C2 amended: stop() called after task i passed the self.stopped check and
\* before the check for task i+1 means that no task beyond i is taken up or
\* dispatched; task i runs to its end, its outcome is recorded, and the
\* worker leaves the loop.
C2_NoTaskAfterStop ==
    stopTaken >= 1 =>
        /\ Len(taken) = stopTaken
        /\ \A k \in 1..Len(dispatched) : dispatched[k] <= stopTaken
        /\ LeftLoop => (OutcomesFor(stopTaken) = 1 /\ processed_files = stopTaken)

C2_Witness ==
    /\ pc = "done" /\ stopTaken = 1 /\ stopAt = 1 /\ total_files = 3
    /\ dispatched = <<1>>
    /\ Len(file_stats) = 1

(***************************************************************************)
(* C3                                                                      *)
(***************************************************************************)
\* C3: every started batch, completed or cancelled, eventually has emitted a
\* terminal progress_update with percent 100 followed by exactly one
\* compression_finished, and nothing is emitted after it.
C3_TerminalThenFinished ==
    <>[](pc = "done" /\ EndsWithTerminal)

C3_Witness ==
    /\ pc = "done" /\ stopped /\ processed_files = 1 /\ total_files = 3
    /\ EndsWithTerminal

(***************************************************************************)
(* C4                                                                      *)
(***************************************************************************)
\* C4: in a batch of N tasks that is not cancelled and in which exactly one
\* task k, 1 < k < N, fails, N-1 FileResults were emitted, the failed-files
\* list holds task k only, processed_files is N and the terminal
\* progress_update reports 100 percent.
C4_OneFailureInTheMiddle ==
    (/\ pc = "done" /\ ~stopped /\ total_files >= 3
     /\ Len(FileErrors) = 1
     /\ FileErrors[1].file \in 2..(total_files - 1)) =>
        /\ Len(FileResults) = total_files - 1
        /\ Len(failed_files) = 1
        /\ failed_files[1][1] = FileErrors[1].file
        /\ processed_files = total_files
        /\ signals[Len(signals) - 1] = ProgressUpdate(0, total_files, 100, "zero")

C4_Witness ==
    /\ pc = "done" /\ ~stopped /\ total_files = 3
    /\ Len(FileErrors) = 1 /\ FileErrors[1].file = 2
    /\ Len(FileResults) = 2

(***************************************************************************)
(* C5                                                                      *)
(***************************************************************************)
\* C5: at the end of a batch total_original_size is the sum of the original
\* sizes of the tasks that succeeded and total_compressed_size the sum of
\* their compressed sizes.
C5_TotalsOfSuccessesOnly ==
    pc = "done" =>
        /\ total_original_size = SumOriginal(file_stats)
        /\ total_compressed_size = SumCompressed(file_stats)

(***************************************************************************)
(* C6                                                                      *)
(***************************************************************************)
\* C6: tasks are dispatched in submission order and one at a time: at most
\* one compress_file call is in flight, and when a task is dispatched every
\* task dispatched before it has an earlier index and has its outcome.
C6_SequentialDispatch ==
    /\ Cardinality(inflight) <= 1
    /\ \A k \in 1..Len(dispatched) :
          k < Len(dispatched) =>
              /\ dispatched[k] < dispatched[k + 1]
              /\ dispatched[k] \notin inflight
              /\ OutcomesFor(dispatched[k]) = 1
    /\ \A i \in inflight : i = dispatched[Len(dispatched)] /\ OutcomesFor(i) = 0

C6_Witness ==
    /\ dispatched = <<1, 2, 3>>
    /\ inflight = {3}
    /\ OutcomesFor(1) = 1 /\ OutcomesFor(2) = 1

(***************************************************************************)
(* C7                                                                      *)
(***************************************************************************)
\* C7: each failed task is reported on error_occurred when it fails, and the
\* consolidated report is emitted at the end of the batch exactly when a
\* task failed; it lists every failed task once, with its error, in the
\* order of the failures, also in a cancelled batch.
C7_FailureReports ==
    /\ [k \in 1..Len(FileErrors) |-> FileErrors[k].items[1]] = failed_files
    /\ \A k \in 1..Len(signals) :
          IsFileError(signals[k]) =>
              /\ k < Len(signals)
              /\ signals[k + 1].sig = "progress_update"
              /\ signals[k + 1].file = signals[k].file
    /\ Len(Reports) = IF LeftLoop /\ pc # "report" /\ failed_files # <<>>
                      THEN 1 ELSE 0
    /\ \A k \in 1..Len(Reports) : Reports[k].items = failed_files
    /\ \A k, l \in 1..Len(failed_files) :
          failed_files[k][1] = failed_files[l][1] => k = l

C7_Witness ==
    /\ pc = "done" /\ stopped /\ total_files = 3
    /\ Len(failed_files) = 2
    /\ Len(Reports) = 1
    /\ Reports[1].items = failed_files

C9_FixedOrderFirstSuccess ==
    /\ Len(attempts) <= Len(Mechanisms)
    /\ \A k \in 1..Len(attempts) :
          /\ attempts[k][1] = Mechanisms[k]
          /\ attempts[k][2] = "ok" =>
                (k = Len(attempts) /\ hpc = "done" /\ hresult = "returned")
    /\ hresult = "returned" =>
          (attempts # <<>> /\ attempts[Len(attempts)][2] = "ok")

C9_Witness ==
    /\ hresult = "returned"
    /\ Len(attempts) = 3
    /\ attempts[1][2] = "failed" /\ attempts[2][2] = "failed"
    /\ attempts[3] = <<"convert", "ok", "none">>

(***************************************************************************)
(* C10                                                                     *)
(***************************************************************************)
\* C10: the failure of one HEIC mechanism does not end the call: the next
\* mechanism follows with no error surfaced, and the call raises exactly
\* when all four mechanisms failed or were not there, for every quality
\* level.
C10_FailsOnlyIfAllFail ==
    /\ (hresult = "raised") <=>
          (/\ Len(attempts) = Len(Mechanisms)
           /\ \A k \in 1..Len(attempts) : attempts[k][2] \in {"failed", "skipped"})
    /\ \A k \in 1..Len(attempts) :
          (attempts[k][2] = "failed" /\ k < Len(Mechanisms)) =>
              \/ Len(attempts) > k
              \/ (hpc = Mechanisms[k + 1] /\ hresult = "none")
    /\ hpc = "done" => hresult \in {"returned", "raised"}

C10_Witness ==
    /\ quality = "Maximum"
    /\ hresult = "returned"
    /\ attempts = <<<<"native", "failed", "KeyError">>, <<"sips", "ok", "none">>>>

(***************************************************************************)
(* C11                                                                     *)
(***************************************************************************)
\* the exception of the last mechanism that was attempted and failed
LastFailure ==
    LET failed == {k \in 1..Len(attempts) : attempts[k][2] = "failed"}
    IN  IF failed = {} THEN "none"
        ELSE attempts[CHOOSE k \in failed : \A l \in failed : l <= k][3]

\* C11: when the HEIC chain fails as a whole, the error it raises is the
\* error of the last mechanism that was attempted and failed, also when the
\* last mechanisms of the chain are not installed and are skipped.
C11_CarriesLastError ==
    hresult = "raised" => herror = LastFailure

(***************************************************************************)
(* C12                                                                     *)
(***************************************************************************)
\* C12: for every quality level the user can select and every media kind the
\* lookup of the encode parameters succeeds: no compress_file call fails
\* because its quality level is missing from a quality map.
C12_QualityPolicyTotal ==
    mresult = "raised" =>
        merror \notin {"image_KeyError", "heic_KeyError", "video_KeyError"}

(***************************************************************************)
(* C13                                                                     *)
(***************************************************************************)
\* C13: for a readable GIF and any of the four quality levels compress_image
\* succeeds and the output file is a verbatim copy of the input.
C13_GifCopiedVerbatim ==
    (mpc = "done" /\ invoked = "image" /\ ext = "gif" /\ readable) =>
        /\ mresult = "returned"
        /\ output = "original"

(***************************************************************************)
(* C17                                                                     *)
(***************************************************************************)
\* C17: compress_file on an existing file whose extension is in neither list
\* fails with the unsupported-format error before any side effect: the
\* output directory is not created and no processor is invoked.
C17_RejectedBeforeSideEffects ==
    (mpc = "done" /\ source # "absent" /\ ext \notin image_extensions \cup video_extensions) =>
        /\ mresult = "raised"
        /\ merror = "UnsupportedFormat"
        /\ outdir_exists = outdir_existed
        /\ invoked = "none"

(***************************************************************************)
(* C18                                                                     *)
(***************************************************************************)
\* C18: compress_file on a source path that does not exist fails with the
\* source-not-found error for every extension and quality level, creates no
\* output directory and invokes no processor.
C18_SourceNotFound ==
    (mpc = "done" /\ source = "absent") =>
        /\ mresult = "raised"
        /\ merror = "FileNotFoundError"
        /\ outdir_exists = outdir_existed
        /\ invoked = "none"
        /\ output = "absent"

C18_Witness ==
    /\ mpc = "done" /\ source = "absent"
    /\ ext = "mp4" /\ quality_level = "Maximum"
    /\ ~outdir_existed /\ ~outdir_exists
    /\ merror = "FileNotFoundError"

(***************************************************************************)
(* Vocabulary of the video properties                                      *)
(***************************************************************************)
\* the positions in calls of the transcode invocations of the current call
Transcodes == {k \in 1..Len(calls) : calls[k].kind = "transcode"}
Primaries == {k \in Transcodes : calls[k].variant = "primary"}
Fallbacks == {k \in Transcodes : calls[k].variant = "fallback"}
FailedAt(k) == calls[k].outcome # "ok"
NoEncoderCallable == bundledTool # "runs" /\ systemTool # "runs"

(***************************************************************************)
(* C14                                                                     *)
(***************************************************************************)
\* C14: a finished compress_video call has invoked the encoder for
\* transcoding at most twice; the fallback is invoked iff the primary
\* invocation failed, exactly once and after it; a successful fallback makes
\* the call return and a failed fallback makes it raise.
C14_FallbackExactlyOnce ==
    vpc = "done" =>
        /\ Cardinality(Transcodes) <= 2
        /\ Cardinality(Primaries) <= 1
        /\ Cardinality(Fallbacks) <= 1
        /\ (Fallbacks # {}) <=> (\E p \in Primaries : FailedAt(p))
        /\ \A f \in Fallbacks :
              /\ \E p \in Primaries : p < f
              /\ f = Len(calls)
              /\ FailedAt(f) => vresult = "raised"
              /\ ~FailedAt(f) => vresult = "returned"

C14_Witness ==
    /\ vpc = "done"
    /\ vresult = "raised"
    /\ Cardinality(Transcodes) = 2
    /\ \E p \in Primaries : FailedAt(p)
    /\ \E f \in Fallbacks : FailedAt(f)

(***************************************************************************)
(* C15                                                                     *)
(***************************************************************************)
\* C15: when the primary and the fallback invocation both fail, the error
\* compress_video raises carries the fallback invocation's diagnostic output.
C15_FallbackDiagnosticAttached ==
    (vpc = "done" /\ \E f \in Fallbacks : FailedAt(f)) =>
        /\ vresult = "raised"
        /\ \E f \in Fallbacks : verror.detail = calls[f].stderr

(***************************************************************************)
(* C16                                                                     *)
(***************************************************************************)
\* C16: every transcode invocation, primary or fallback, passes the
\* metadata-preserving instruction, the progressive-playback instruction and
\* the overwrite instruction.
C16_EveryTranscodeKeepsMetadata ==
    \A k \in Transcodes :
        /\ calls[k].map_metadata
        /\ calls[k].faststart
        /\ calls[k].overwrite

C20_DiscoveredOncePerProcess ==
    discoveries <= 1

\* C20 as amended: the resolution of the tool paths runs once for each
\* VideoProcessor constructed, that is once for each batch and each test
\* compression started; a processor's paths are rewritten afterwards only
\* by _check_ffmpeg, to the system tools, when the bound encoder fails its
\* version check and the system encoder passes it.
C20_DiscoveredOncePerProcessor ==
    /\ discoveries = instances
    /\ instances >= 1 =>
          \/ ffmpeg_path = ResolvePath /\ ffprobe_path = ResolvePath
          \/ /\ ffmpeg_path = "system" /\ ffprobe_path = "system"
             /\ bundledTool = "broken" /\ systemTool = "runs"

C20_Witness ==
    /\ instances = 2
    /\ discoveries = 2
    /\ ncalls = 2
    /\ vpc = "done"
    /\ ResolvePath = "bundled"
    /\ ffmpeg_path = "system"

(***************************************************************************)
(* C21                                                                     *)
(***************************************************************************)
\* C21: a compress_file call never deletes or modifies its source file,
\* whatever the output directory is, the directory of the source included:
\* the source's content stays what it was before the call.
C21_SourceUntouched ==
    source \in {"absent", "original"}

(***************************************************************************)
(* C23                                                                     *)
(***************************************************************************)
\* the order of the tiers and of the x264 speed presets, slowest last
TierRank(t) ==
    CASE t = "Low" -> 1 [] t = "Medium" -> 2 [] t = "High" -> 3 [] t = "Maximum" -> 4
PresetRank(p) ==
    CASE p = "veryfast" -> 1 [] p = "faster" -> 2 [] p = "medium" -> 3 [] p = "slow" -> 4

\* C23: from Low to Maximum the video profile's preset gets no faster, its
\* audio bitrate no lower and its crf no higher; in every tier that has both
\* an image and a HEIC quality the HEIC quality is strictly the lower one.
\* stated of the tier of the call at hand, against every tier below it
C23_ProfilesMonotone ==
    /\ vquality \in DOMAIN video_quality_map =>
          \A a \in DOMAIN video_quality_map :
              TierRank(a) <= TierRank(vquality) =>
                  /\ PresetRank(video_quality_map[a].preset)
                        <= PresetRank(video_quality_map[vquality].preset)
                  /\ video_quality_map[a].audio_bitrate
                        <= video_quality_map[vquality].audio_bitrate
                  /\ video_quality_map[a].crf >= video_quality_map[vquality].crf
    /\ vquality \in DOMAIN quality_map \cap DOMAIN heic_quality_map =>
          heic_quality_map[vquality] < quality_map[vquality]

\* the Low profile has been resolved and passed to the encoder
C23_Witness ==
    /\ vpc = "done"
    /\ vquality = "Low"
    /\ \E k \in 1..Len(calls) :
          /\ calls[k].kind = "transcode"
          /\ calls[k].variant = "primary"
          /\ calls[k].crf = 26
          /\ calls[k].preset = "veryfast"
          /\ calls[k].audio_bitrate = 128

(***************************************************************************)
(* C24                                                                     *)
(***************************************************************************)
\* the paths are no longer what the construction resolved: both name the
\* system tools although the bundle has its own
Rebound ==
    /\ instances >= 1
    /\ ResolvePath = "bundled"
    /\ ffmpeg_path = "system"
    /\ ffprobe_path = "system"

\* what the availability check does to the paths: both become the system
\* tools when the bound encoder cannot be run and the system one can, and
\* both are left alone otherwise
CheckRebindsOnlyThen ==
    vpc = "check" =>
        IF StatusOf(ffmpeg_path) # "runs" /\ systemTool = "runs"
        THEN ffmpeg_path' = "system" /\ ffprobe_path' = "system"
        ELSE UNCHANGED <<ffmpeg_path, ffprobe_path>>

IsProgress(s) == s.sig = "progress_update"

\* the terminal progress_update of lines 168-176: the one with an empty file
\* name that is not the initial event
IsTerminalProgress(k) == IsProgress(signals[k]) /\ signals[k].file = 0 /\ k > 1

\* C25 as stated: every progress_update emitted while no file has completed
\* (processed 0) carries a null remaining time, the terminal event of a batch
\* cancelled before its first task included.
C25_NullEtaBeforeFirstFile ==
    \A k \in 1..Len(signals) :
        (IsProgress(signals[k]) /\ signals[k].processed = 0) =>
            signals[k].eta = "None"

\* C25 as amended: the initial event and every pre-task and post-task event
\* carry a null remaining time exactly when their processed count is 0; the
\* terminal event always carries remaining time 0, also in a batch that is
\* cancelled before its first task.
C25_NullEtaExceptTerminal ==
    \A k \in 1..Len(signals) :
        IsProgress(signals[k]) =>
            IF IsTerminalProgress(k)
            THEN signals[k].eta = "zero"
            ELSE (signals[k].processed = 0) <=> (signals[k].eta = "None")

C25_Witness ==
    /\ pc = "done"
    /\ stopped
    /\ taken = <<>>
    /\ Len(signals) = 3
    /\ signals[1] = ProgressUpdate(0, 0, 0, "None")
    /\ IsTerminalProgress(2)
    /\ signals[2].processed = 0
    /\ signals[2].eta = "zero"

(***************************************************************************)
(* C26                                                                     *)
(***************************************************************************)
ProgressEvents == SelectSeq(signals, IsProgress)

\* the progress_update events that name task i, in the order of emission
ProgressOf(i) == SelectSeq(signals, LAMBDA s : IsProgress(s) /\ s.file = i)

\* C26: each dispatched task that has finished, successfully or not, has one
\* pre-task and exactly one post-task progress_update, the second with a
\* processed count one higher than the first; along the events of a run the
\* processed count and the percentage never decrease, the count never
\* exceeds the total and the percentage stays within 0..100.
C26_ProgressMonotone ==
    /\ \A k \in 1..Len(dispatched) :
          LET i == dispatched[k]
          IN  IF i \in inflight
              THEN Len(ProgressOf(i)) = 1
              ELSE /\ Len(ProgressOf(i)) = 2
                   /\ ProgressOf(i)[2].processed = ProgressOf(i)[1].processed + 1
    /\ \A k \in 1..Len(ProgressEvents) :
          /\ ProgressEvents[k].processed \in 0..total_files
          /\ ProgressEvents[k].percent \in 0..100
          /\ k < Len(ProgressEvents) =>
                /\ ProgressEvents[k].processed <= ProgressEvents[k + 1].processed
                /\ ProgressEvents[k].percent <= ProgressEvents[k + 1].percent

C26_Witness ==
    /\ pc = "done"
    /\ ~stopped
    /\ dispatched = <<1, 2, 3>>
    /\ Len(FileErrors) = 1
    /\ Len(FileResults) = 2
    /\ Len(ProgressEvents) = 8
    /\ ProgressEvents[7].processed = 3

(***************************************************************************)
(* C22                                                                     *)
(***************************************************************************)
\* the output has the proportions of the input, to within the pixel lost by
\* rounding a side
AspectKept ==
    LET d == out_width * height - out_height * width
    IN  (IF d >= 0 THEN d ELSE -d) <= Max(width, height)

\* C22: on every path that re-encodes an image (JPEG, PNG, each HEIC
\* mechanism) an input with a side above 4096 px is written with both sides
\* at most 4096 px and its proportions kept, and an input with both sides at
\* most 4096 px keeps its dimensions.
C22_DownscaledTo4096 ==
    rpc = "done" =>
        IF width > 4096 \/ height > 4096
        THEN /\ out_width <= 4096
             /\ out_height <= 4096
             /\ AspectKept
        ELSE out_width = width /\ out_height = height

(***************************************************************************)
(* C27                                                                     *)
(***************************************************************************)
\* C27: within one batch two distinct tasks that both succeed never write to
\* the same output path, for every list add_files and add_folder can build.
C27_DistinctOutputPaths ==
    \A k, l \in 1..Len(written) :
        k # l => written[k].path # written[l].path

(***************************************************************************)
(* C28                                                                     *)
(***************************************************************************)
\* every worker has finished and every signal has been delivered
UiQuiet == upc = "idle" /\ wpc = "exited" /\ queue = <<>>

\* C28: for every batch on_compression_finished runs exactly once, whether
\* the batch completes without failures, completes with failed files or is
\* stopped through stop_compression.
C28_FinalizedExactlyOnce ==
    UiQuiet => \A b \in 1..batches : finalized[b] = 1

(***************************************************************************)
(* C29                                                                     *)
(***************************************************************************)
\* C29: update_progress handles every progress_update the worker emits
\* without an error, the events with a null remaining time included.
C29_ProgressSlotNeverFails ==
    ~slot_error

(***************************************************************************)
(* C30                                                                     *)
(***************************************************************************)
\* C30: the start button is enabled only while no worker runs, and
\* start_compression never replaces the reference to a running worker.
C30_OneWorkerAtATime ==
    /\ start_btn => ~IsRunning
    /\ ~overlapped

====
